---- MODULE Spec2Model ----
(***************************************************************************)
(* Model of server.py: a Flask service with a /health endpoint and a       *)
(* /transcribe endpoint that decodes a base64 payload into a temporary     *)
(* file, hands the file to a Whisper model loaded once at startup, and     *)
(* removes the file again.                                                 *)
(*                                                                         *)
(* Python strings are sequences of one-character strings.  JSON / Python   *)
(* values are tagged records: [str |-> s], [num |-> n], [null |-> TRUE],   *)
(* [list |-> xs], [obj |-> f].                                             *)
(***************************************************************************)
EXTENDS Integers, Sequences, FiniteSets, TLC

\* ------------------------------------------------------------------ bounds
MaxNames == 2
MaxTextLen == 2

\* ------------------------------------------------------- values and strings
JStr(s) == [str |-> s]
JNum(n) == [num |-> n]
JNull == [null |-> TRUE]
JList(xs) == [list |-> xs]
JObj(f) == [obj |-> f]

IsStr(v) == "str" \in DOMAIN v
IsObj(v) == "obj" \in DOMAIN v

\* Python truth value of a decoded JSON value (the `not x` tests)
Truthy(v) ==
    IF "str" \in DOMAIN v THEN v.str # <<>>
    ELSE IF "num" \in DOMAIN v THEN v.num # 0
    ELSE IF "list" \in DOMAIN v THEN v.list # <<>>
    ELSE IF "obj" \in DOMAIN v THEN DOMAIN v.obj # {}
    ELSE FALSE

\* dict.get(key, default)
DictGet(d, key, default) == IF key \in DOMAIN d THEN d[key] ELSE default

\* str.endswith(suffix)
EndsWith(s, suf) ==
    /\ Len(suf) <= Len(s)
    /\ SubSeq(s, Len(s) - Len(suf) + 1, Len(s)) = suf

Whitespace == {" ", "\n", "\t"}

RECURSIVE LStrip(_)
LStrip(s) == IF s # <<>> /\ Head(s) \in Whitespace THEN LStrip(Tail(s)) ELSE s

RECURSIVE RStrip(_)
RStrip(s) ==
    IF s # <<>> /\ s[Len(s)] \in Whitespace
    THEN RStrip(SubSeq(s, 1, Len(s) - 1))
    ELSE s

\* strips leading whitespace only
StripLeftOnly(s) == LStrip(s)

\* str.strip()
Strip(s) == RStrip(LStrip(s))

\* ------------------------------------------------------------------ base64
B64Alphabet ==
    << "A","B","C","D","E","F","G","H","I","J","K","L","M","N","O","P",
       "Q","R","S","T","U","V","W","X","Y","Z","a","b","c","d","e","f",
       "g","h","i","j","k","l","m","n","o","p","q","r","s","t","u","v",
       "w","x","y","z","0","1","2","3","4","5","6","7","8","9","+","/" >>

\* table_a2b_base64: the 6-bit value of a character, 64 when it has none
B64Index(c) ==
    IF \E i \in 1..64 : B64Alphabet[i] = c
    THEN (CHOOSE i \in 1..64 : B64Alphabet[i] = c) - 1
    ELSE 64

DecodeOk(bytes) == [bytes |-> bytes]
DecodeErr(kind) == [raise |-> kind]

\* binascii.a2b_base64 in its default, non-strict mode: characters outside
\* the alphabet are skipped, padding ends the input once a quad is complete,
\* and an incomplete quad at the end of the input is an error.
RECURSIVE A2bBase64(_, _, _, _, _, _)
A2bBase64(s, i, quad_pos, leftchar, pads, out) ==
    IF i > Len(s)
    THEN IF quad_pos # 0 THEN DecodeErr("binascii.Error") ELSE DecodeOk(out)
    ELSE
      LET c == s[i]
          v == B64Index(c)
      IN IF c = "="
         THEN IF quad_pos >= 2 /\ quad_pos + pads + 1 >= 4
              THEN DecodeOk(out)
              ELSE A2bBase64(s, i + 1, quad_pos, leftchar,
                             IF quad_pos >= 2 THEN pads + 1 ELSE pads, out)
         ELSE IF v >= 64
         THEN A2bBase64(s, i + 1, quad_pos, leftchar, pads, out)
         ELSE IF quad_pos = 0
         THEN A2bBase64(s, i + 1, 1, v, 0, out)
         ELSE IF quad_pos = 1
         THEN A2bBase64(s, i + 1, 2, v % 16, 0,
                        Append(out, (leftchar * 4 + (v \div 16)) % 256))
         ELSE IF quad_pos = 2
         THEN A2bBase64(s, i + 1, 3, v % 4, 0,
                        Append(out, (leftchar * 16 + (v \div 4)) % 256))
         ELSE A2bBase64(s, i + 1, 0, 0, 0,
                        Append(out, (leftchar * 64 + v) % 256))

\* base64.b64decode(data_b64)
B64Decode(v) ==
    IF ~IsStr(v) THEN DecodeErr("TypeError")
    ELSE A2bBase64(v.str, 1, 0, 0, 0, <<>>)

\* ------------------------------------------------------------ request input
Requests == {"r1", "r2"}

NULL == [unset |-> TRUE]
ABSENT == [absent |-> TRUE]

DataOpts ==
    { ABSENT, JStr(<<>>), JStr(<<"Q","Q","=","=">>),
      JStr(<<"Q","g","!","=","=">>), JStr(<<"Q","Q","=">>), JNum(5) }
FilenameOpts == { ABSENT, JStr(<<"a",".","m","p","3">>), JNum(7) }
FormatOpts == { ABSENT, JStr(<<"m","p","3">>) }
LanguageOpts == { ABSENT, JStr(<<"a","u","t","o">>), JStr(<<>>), JStr(<<"e","n">>), JNull }

\* the JSON object that has exactly the fields that are not ABSENT
MkObject(d, f, m, l) ==
    LET v == [k \in {"data", "filename", "format", "language"} |->
                 IF k = "data" THEN d
                 ELSE IF k = "filename" THEN f
                 ELSE IF k = "format" THEN m
                 ELSE l]
    IN JObj([k \in {j \in DOMAIN v : v[j] # ABSENT} |-> v[k]])

Objects ==
    { MkObject(d, f, m, l) :
        d \in DataOpts, f \in FilenameOpts, m \in FormatOpts, l \in LanguageOpts }

\* request bodies: bytes that are not JSON, or the text of a JSON value
Bodies ==
    { [raw |-> <<>>], [raw |-> <<"{">>] }
    \cup { [json |-> v] : v \in Objects \cup { JNull, JList(<<JNum(1)>>) } }

\* ------------------------------------------------------------------- state
VARIABLES MODEL_NAME, model, disk, healthResp,
          pc, body, data_b64, language, suffix, tmp, whisper_opts,
          heard, result, text, exc, resp, events

vars == <<MODEL_NAME, model, disk, healthResp,
          pc, body, data_b64, language, suffix, tmp, whisper_opts,
          heard, result, text, exc, resp, events>>

ModelNames == {"base", "small"}
Devices == {"cuda", "cpu"}

\* module level: MODEL_NAME from the environment, the model loaded once
Init ==
    /\ MODEL_NAME \in ModelNames
    /\ \E d \in Devices : model = [name |-> MODEL_NAME, device |-> d]
    /\ disk = <<>>
    /\ healthResp = NULL
    /\ pc = [r \in Requests |-> "idle"]
    /\ body = [r \in Requests |-> NULL]
    /\ data_b64 = [r \in Requests |-> NULL]
    /\ language = [r \in Requests |-> NULL]
    /\ suffix = [r \in Requests |-> NULL]
    /\ tmp = [r \in Requests |-> NULL]
    /\ whisper_opts = [r \in Requests |-> NULL]
    /\ heard = [r \in Requests |-> NULL]
    /\ result = [r \in Requests |-> NULL]
    /\ text = [r \in Requests |-> NULL]
    /\ exc = [r \in Requests |-> NULL]
    /\ resp = [r \in Requests |-> NULL]
    /\ events = [r \in Requests |-> <<>>]

\* ---------------------------------------------------------------- responses
Respond200(t) == [status |-> 200, ok |-> TRUE, text |-> t]
Respond400(msg) == [status |-> 400, ok |-> FALSE, error |-> msg]

\* reports an exception as a client error
ExceptHandlerClientError(e) == [status |-> 400, ok |-> FALSE, error |-> e, trace |-> e]

\* the outer `except Exception` of transcribe
ExceptHandler(e) == [status |-> 500, ok |-> FALSE, error |-> e, trace |-> e]

\* echoes the default model name instead of the configured one
HealthResponseDefault == [ok |-> TRUE, model |-> "base"]

\* health()
HealthResponse == [ok |-> TRUE, model |-> MODEL_NAME]

Health ==
    /\ healthResp' = HealthResponse
    /\ UNCHANGED <<MODEL_NAME, model, disk, pc, body, data_b64, language, suffix,
                   tmp, whisper_opts, heard, result, text, exc, resp, events>>

\* --------------------------------------------------------------- transcribe
\* request.get_json(force=True): the parsed value, or BadRequest
GetJson(b) ==
    IF "json" \in DOMAIN b THEN [value |-> b.json] ELSE [raise |-> "BadRequest"]

\* f".{fmt}" if not filename.endswith(f".{fmt}") else ""
Suffix(filename, fmt) ==
    LET ext == <<".">> \o fmt.str
    IN IF ~EndsWith(filename.str, ext) THEN ext ELSE <<>>

\* lines 30-43: what the handler does before it touches the file system
Prologue(b) ==
    LET j == GetJson(b) IN
    IF "raise" \in DOMAIN j THEN [raise |-> j.raise]
    ELSE IF ~Truthy(j.value) THEN [return |-> Respond400("Request JSON vacio")]
    ELSE IF ~IsObj(j.value) THEN [raise |-> "AttributeError"]
    ELSE
      LET payload == j.value.obj
          d == DictGet(payload, "data", JNull)
          filename == DictGet(payload, "filename", JStr(<<"a","u","d","i","o">>))
          fmt == DictGet(payload, "format", JStr(<<"w","a","v">>))
          lang == DictGet(payload, "language", JStr(<<"a","u","t","o">>))
      IN IF ~Truthy(d) THEN [return |-> Respond400("Falta campo 'data' (base64)")]
         ELSE IF ~IsStr(filename) THEN [raise |-> "AttributeError"]
         ELSE [data_b64 |-> d, language |-> lang, suffix |-> Suffix(filename, fmt)]

\* lines 28-43 for a request whose body is drawn from B
RequestFrom(r, B) ==
    /\ pc[r] = "idle"
    /\ \E b \in B :
         LET p == Prologue(b) IN
         /\ body' = [body EXCEPT ![r] = b]
         /\ IF "raise" \in DOMAIN p
            THEN /\ resp' = [resp EXCEPT ![r] = ExceptHandler(p.raise)]
                 /\ pc' = [pc EXCEPT ![r] = "done"]
                 /\ UNCHANGED <<data_b64, language, suffix>>
            ELSE IF "return" \in DOMAIN p
            THEN /\ resp' = [resp EXCEPT ![r] = p.return]
                 /\ pc' = [pc EXCEPT ![r] = "done"]
                 /\ UNCHANGED <<data_b64, language, suffix>>
            ELSE /\ data_b64' = [data_b64 EXCEPT ![r] = p.data_b64]
                 /\ language' = [language EXCEPT ![r] = p.language]
                 /\ suffix' = [suffix EXCEPT ![r] = p.suffix]
                 /\ pc' = [pc EXCEPT ![r] = "L44"]
                 /\ UNCHANGED resp
    /\ UNCHANGED <<MODEL_NAME, model, disk, healthResp, tmp, whisper_opts,
                   heard, result, text, exc, events>>

\* a request with any body
Request(r) == RequestFrom(r, Bodies)

\* the bodies used when two requests are handled concurrently
ConcBodies ==
    { [raw |-> <<"{">>],
      [json |-> JObj(<<>>)],
      [json |-> MkObject(JStr(<<"Q","Q","=","=">>), ABSENT, ABSENT, ABSENT)],
      [json |-> MkObject(JStr(<<"Q","g","!","=","=">>), ABSENT, ABSENT, JStr(<<"e","n">>))],
      [json |-> MkObject(JStr(<<"Q","Q","=">>), ABSENT, ABSENT, ABSENT)] }

RequestConc(r) == RequestFrom(r, ConcBodies)

\* ---------------------------------------------------------- temporary file
Raised(kind) == [raise |-> kind]

\* candidate names without the check that the path is not taken
AnyPaths(suf) == { <<k, suf>> : k \in 1..MaxNames }

\* paths tempfile may pick for a suffix: a candidate name that is not taken
\* (mkstemp opens with O_EXCL, so an existing path is never returned)
FreePaths(suf) == { p \in { <<k, suf>> : k \in 1..MaxNames } : p \notin DOMAIN disk }

DiskPut(path, file) == [p \in DOMAIN disk \cup {path} |-> IF p = path THEN file ELSE disk[p]]
DiskRemove(path) == [p \in DOMAIN disk \ {path} |-> disk[p]]

Log(r, e) == [events EXCEPT ![r] = Append(@, e)]

\* line 44: tmp = tempfile.NamedTemporaryFile(suffix=suffix, delete=False)
NamedTemporaryFile(r) ==
    /\ pc[r] = "L44"
    /\ \/ \E p \in FreePaths(suffix[r]) :
            /\ disk' = DiskPut(p, [owner |-> r, content |-> <<>>])
            /\ tmp' = [tmp EXCEPT ![r] = [name |-> p, closed |-> FALSE, buf |-> <<>>]]
            /\ events' = Log(r, "create")
            /\ pc' = [pc EXCEPT ![r] = "L46"]
            /\ UNCHANGED resp
       \/ /\ resp' = [resp EXCEPT ![r] = ExceptHandler("OSError")]
          /\ pc' = [pc EXCEPT ![r] = "done"]
          /\ UNCHANGED <<disk, tmp, events>>
    /\ UNCHANGED <<MODEL_NAME, model, healthResp, body, data_b64, language, suffix,
                   whisper_opts, heard, result, text, exc>>

\* line 46: tmp.write(base64.b64decode(data_b64)); the bytes go to the
\* file object's buffer
Write(r) ==
    /\ pc[r] = "L46"
    /\ LET d == B64Decode(data_b64[r]) IN
       \/ /\ "raise" \in DOMAIN d
          /\ exc' = [exc EXCEPT ![r] = Raised(d.raise)]
          /\ pc' = [pc EXCEPT ![r] = "L60"]
          /\ UNCHANGED <<tmp, events>>
       \/ /\ "bytes" \in DOMAIN d
          /\ tmp' = [tmp EXCEPT ![r].buf = @ \o d.bytes]
          /\ events' = Log(r, "write")
          /\ pc' = [pc EXCEPT ![r] = "L47"]
          /\ UNCHANGED exc
       \/ /\ "bytes" \in DOMAIN d
          /\ exc' = [exc EXCEPT ![r] = Raised("OSError")]
          /\ pc' = [pc EXCEPT ![r] = "L60"]
          /\ UNCHANGED <<tmp, events>>
    /\ UNCHANGED <<MODEL_NAME, model, disk, healthResp, body, data_b64, language,
                   suffix, whisper_opts, heard, result, text, resp>>

\* a flush whose failure is ignored: the handler goes on to close()
FlushIgnoringFailure(r) ==
    /\ pc[r] = "L47"
    /\ \/ /\ disk' = IF tmp[r].name \in DOMAIN disk
                     THEN [disk EXCEPT ![tmp[r].name].content = @ \o tmp[r].buf]
                     ELSE disk
          /\ tmp' = [tmp EXCEPT ![r].buf = <<>>]
          /\ events' = Log(r, "flush")
       \/ UNCHANGED <<disk, tmp, events>>
    /\ pc' = [pc EXCEPT ![r] = "L48"]
    /\ UNCHANGED <<MODEL_NAME, model, healthResp, body, data_b64, language,
                   suffix, whisper_opts, heard, result, text, resp, exc>>

\* line 47: tmp.flush(); the buffer reaches the file
Flush(r) ==
    /\ pc[r] = "L47"
    /\ \/ /\ disk' = IF tmp[r].name \in DOMAIN disk
                     THEN [disk EXCEPT ![tmp[r].name].content = @ \o tmp[r].buf]
                     ELSE disk
          /\ tmp' = [tmp EXCEPT ![r].buf = <<>>]
          /\ events' = Log(r, "flush")
          /\ pc' = [pc EXCEPT ![r] = "L48"]
          /\ UNCHANGED exc
       \/ /\ exc' = [exc EXCEPT ![r] = Raised("OSError")]
          /\ pc' = [pc EXCEPT ![r] = "L60"]
          /\ UNCHANGED <<disk, tmp, events>>
    /\ UNCHANGED <<MODEL_NAME, model, healthResp, body, data_b64, language,
                   suffix, whisper_opts, heard, result, text, resp>>

\* line 48: tmp.close()
Close(r) ==
    /\ pc[r] = "L48"
    /\ \/ /\ tmp' = [tmp EXCEPT ![r].closed = TRUE]
          /\ events' = Log(r, "close")
          /\ pc' = [pc EXCEPT ![r] = "L51"]
          /\ UNCHANGED exc
       \/ /\ exc' = [exc EXCEPT ![r] = Raised("OSError")]
          /\ pc' = [pc EXCEPT ![r] = "L60"]
          /\ UNCHANGED <<tmp, events>>
    /\ UNCHANGED <<MODEL_NAME, model, disk, healthResp, body, data_b64, language,
                   suffix, whisper_opts, heard, result, text, resp>>

\* ------------------------------------------------------------ model call
\* forwards the language whatever its value
WhisperOptsAlways(lang) == [dict |-> [language |-> lang]]

\* lines 51-53: the options passed to model.transcribe
WhisperOpts(lang) ==
    IF Truthy(lang) /\ lang # JStr(<<"a","u","t","o">>)
    THEN [dict |-> [language |-> lang]]
    ELSE [dict |-> <<>>]

\* line 56, first half: model.transcribe(tmp.name, **whisper_opts) opens and
\* reads the file at tmp.name
Transcribe(r) ==
    /\ pc[r] = "L51"
    /\ whisper_opts' = [whisper_opts EXCEPT ![r] = WhisperOpts(language[r])]
    /\ events' = Log(r, "transcribe")
    /\ IF tmp[r].name \in DOMAIN disk
       THEN /\ heard' = [heard EXCEPT ![r] = [bytes |-> disk[tmp[r].name].content]]
            /\ pc' = [pc EXCEPT ![r] = "L56"]
            /\ UNCHANGED exc
       ELSE /\ exc' = [exc EXCEPT ![r] = Raised("FileNotFoundError")]
            /\ pc' = [pc EXCEPT ![r] = "L60"]
            /\ UNCHANGED heard
    /\ UNCHANGED <<MODEL_NAME, model, disk, healthResp, body, data_b64, language,
                   suffix, tmp, result, text, resp>>

RECURSIVE SeqsUpTo(_, _)
SeqsUpTo(S, n) ==
    IF n = 0 THEN { <<>> }
    ELSE LET shorter == SeqsUpTo(S, n - 1)
         IN shorter \cup { Append(t, c) : t \in shorter, c \in S }

Texts == SeqsUpTo({" ", "a"}, MaxTextLen)

\* what model.transcribe may return: a dict, with or without "text"
ModelResults == { [text |-> t] : t \in Texts } \cup { <<>> }

\* lines 56-57: the model returns or raises; text = result.get("text", "").strip()
TranscribeReturn(r) ==
    /\ pc[r] = "L56"
    /\ \/ \E res \in ModelResults :
            /\ result' = [result EXCEPT ![r] = [dict |-> res]]
            /\ text' = [text EXCEPT ![r] = JStr(Strip(DictGet(res, "text", <<>>)))]
            /\ UNCHANGED exc
       \/ /\ exc' = [exc EXCEPT ![r] = Raised("RuntimeError")]
          /\ UNCHANGED <<result, text>>
    /\ pc' = [pc EXCEPT ![r] = "L60"]
    /\ UNCHANGED <<MODEL_NAME, model, disk, healthResp, body, data_b64, language,
                   suffix, tmp, whisper_opts, heard, resp, events>>

\* ------------------------------------------------------- cleanup, response
\* lines 64-68: the response after the finally block
Outcome(r) == IF exc[r] = NULL THEN Respond200(text[r].str) ELSE ExceptHandler(exc[r].raise)

\* cleanup outside a finally block: skipped when an exception is pending
UnlinkOnSuccessOnly(r) ==
    /\ pc[r] = "L60"
    /\ \/ /\ exc[r] = NULL
          /\ tmp[r].name \in DOMAIN disk
          /\ disk' = DiskRemove(tmp[r].name)
          /\ events' = Log(r, "unlink")
       \/ /\ exc[r] = NULL
          /\ disk' = disk
          /\ events' = Log(r, "unlink failed")
       \/ /\ exc[r] # NULL
          /\ UNCHANGED <<disk, events>>
    /\ resp' = [resp EXCEPT ![r] = Outcome(r)]
    /\ pc' = [pc EXCEPT ![r] = "done"]
    /\ UNCHANGED <<MODEL_NAME, model, healthResp, body, data_b64, language,
                   suffix, tmp, whisper_opts, heard, result, text, exc>>

\* lines 58-68: os.unlink(tmp.name), its failure swallowed, then the response
Unlink(r) ==
    /\ pc[r] = "L60"
    /\ \/ /\ tmp[r].name \in DOMAIN disk
          /\ disk' = DiskRemove(tmp[r].name)
          /\ events' = Log(r, "unlink")
       \/ /\ disk' = disk
          /\ events' = Log(r, "unlink failed")
    /\ resp' = [resp EXCEPT ![r] = Outcome(r)]
    /\ pc' = [pc EXCEPT ![r] = "done"]
    /\ UNCHANGED <<MODEL_NAME, model, healthResp, body, data_b64, language,
                   suffix, tmp, whisper_opts, heard, result, text, exc>>

\* ------------------------------------------------------------ specification
\* one request with any body, and /health at any time
Next ==
    \/ Health
    \/ Request("r1")
    \/ NamedTemporaryFile("r1")
    \/ Write("r1")
    \/ Flush("r1")
    \/ Close("r1")
    \/ Transcribe("r1")
    \/ TranscribeReturn("r1")
    \/ Unlink("r1")

Spec == Init /\ [][Next]_vars

\* two requests handled by concurrent threads, interleaved at every access
\* to the file system and at the model call
NextConc ==
    \/ Health
    \/ \E r \in Requests : RequestConc(r)
    \/ \E r \in Requests : NamedTemporaryFile(r)
    \/ \E r \in Requests : Write(r)
    \/ \E r \in Requests : Flush(r)
    \/ \E r \in Requests : Close(r)
    \/ \E r \in Requests : Transcribe(r)
    \/ \E r \in Requests : TranscribeReturn(r)
    \/ \E r \in Requests : Unlink(r)

SpecConc == Init /\ [][NextConc]_vars

\* ------------------------------------------------------ claim vocabulary
Done(r) == pc[r] = "done"
HasEvent(r, e) == \E i \in 1..Len(events[r]) : events[r][i] = e
OwnsFile(r) == \E p \in DOMAIN disk : disk[p].owner = r
IsJson(b) == "json" \in DOMAIN b
BodyObject(r) == IsJson(body[r]) /\ IsObj(body[r].json)
HasField(r, k) == BodyObject(r) /\ k \in DOMAIN body[r].json.obj
Field(r, k) == body[r].json.obj[k]
Auto == JStr(<<"a","u","t","o">>)

\* RFC 4648 text: whole quads of alphabet characters, "=" only as the last
\* one or two characters
WellFormedB64(s) ==
    /\ Len(s) % 4 = 0
    /\ \A i \in 1..Len(s) :
         \/ B64Index(s[i]) < 64
         \/ /\ s[i] = "="
            /\ i >= Len(s) - 1
            /\ s[Len(s)] = "="

ValidData(r) ==
    /\ HasField(r, "data")
    /\ IsStr(Field(r, "data"))
    /\ Field(r, "data").str # <<>>
    /\ WellFormedB64(Field(r, "data").str)

\* a payload as the data model describes it: valid base64 audio in `data`,
\* and a string `filename` when there is one
ValidPayload(r) ==
    /\ ValidData(r)
    /\ HasField(r, "filename") => IsStr(Field(r, "filename"))

MalformedData(r) ==
    /\ HasField(r, "data")
    /\ ~(IsStr(Field(r, "data")) /\ WellFormedB64(Field(r, "data").str))

\* t is raw without its leading and trailing whitespace
IsTrimOf(t, raw) ==
    /\ t = <<>> \/ (t[1] \notin Whitespace /\ t[Len(t)] \notin Whitespace)
    /\ \E i \in 0..Len(raw) : \E j \in i..Len(raw) :
         /\ SubSeq(raw, i + 1, j) = t
         /\ \A k \in 1..i : raw[k] \in Whitespace
         /\ \A k \in (j + 1)..Len(raw) : raw[k] \in Whitespace

ModelText(r) == DictGet(result[r].dict, "text", <<>>)

Ok200(r) ==
    /\ resp[r].status = 200
    /\ resp[r].ok
    /\ "text" \in DOMAIN resp[r]
    /\ result[r] # NULL
    /\ IsTrimOf(resp[r].text, ModelText(r))

Fail(r, status) == resp[r].status = status /\ ~resp[r].ok

\* ------------------------------------------------------------------ claims
\* C1 as stated: once a /transcribe response is produced, no temporary file
\* created by that request is on disk, on every path including a failing
\* deletion.
C1_Original == \A r \in Requests : Done(r) => ~OwnsFile(r)

\* C1 amended: once a /transcribe response is produced, no temporary file
\* created by that request is on disk, on every path on which os.unlink
\* itself did not fail.
C1_Cleanup ==
    \A r \in Requests : (Done(r) /\ ~HasEvent(r, "unlink failed")) => ~OwnsFile(r)

C1_Witness ==
    \E r \in Requests :
        /\ Done(r) /\ HasEvent(r, "create") /\ HasEvent(r, "unlink")
        /\ resp[r].status = 500

\* C2: a request whose body is empty or not parseable as JSON is answered
\* with ok:false and status 400.
C2_EmptyOrUnparseable400 ==
    \A r \in Requests :
        (Done(r) /\ (~IsJson(body[r]) \/ ~Truthy(body[r].json))) => Fail(r, 400)

\* C3: a request whose JSON body has no `data` field is answered with
\* ok:false and status 400, whatever else the body holds.
C3_MissingData400 ==
    \A r \in Requests :
        (Done(r) /\ IsJson(body[r]) /\ ~HasField(r, "data")) => Fail(r, 400)

\* C4 as stated: at the model call no language hint is passed when `language`
\* is absent or "auto", and any other value is passed as the hint.
C4_Original ==
    \A r \in Requests :
        whisper_opts[r] # NULL =>
            IF ~HasField(r, "language") \/ Field(r, "language") = Auto
            THEN "language" \notin DOMAIN whisper_opts[r].dict
            ELSE /\ "language" \in DOMAIN whisper_opts[r].dict
                 /\ whisper_opts[r].dict.language = Field(r, "language")

\* C4 amended: at the model call no language hint is passed when `language`
\* is absent, "auto" or falsy (empty string, null); any other value is passed
\* unchanged as the hint.
C4_LanguageHint ==
    \A r \in Requests :
        whisper_opts[r] # NULL =>
            IF \/ ~HasField(r, "language")
               \/ Field(r, "language") = Auto
               \/ ~Truthy(Field(r, "language"))
            THEN "language" \notin DOMAIN whisper_opts[r].dict
            ELSE /\ "language" \in DOMAIN whisper_opts[r].dict
                 /\ whisper_opts[r].dict.language = Field(r, "language")

C4_Witness ==
    \E r \in Requests :
        /\ pc[r] = "L56"
        /\ HasField(r, "language")
        /\ Field(r, "language") = JStr(<<"e","n">>)
        /\ whisper_opts[r].dict = [language |-> JStr(<<"e","n">>)]

\* C5 as stated: every request whose `data` is a valid base64 payload is
\* answered with status 200, ok:true and the model's text, trimmed.
C5_Original == \A r \in Requests : (Done(r) /\ ValidPayload(r)) => Ok200(r)

\* C5 amended: every request whose `data` is a valid base64 payload and whose
\* processing raises no exception (creating, writing, flushing and closing
\* the temporary file and the model call all succeed) is answered with
\* status 200, ok:true and the model's text, trimmed.
C5_ValidPayload ==
    \A r \in Requests : (Done(r) /\ ValidPayload(r) /\ result[r] # NULL) => Ok200(r)

C5_Witness ==
    \E r \in Requests :
        /\ Done(r) /\ ValidPayload(r) /\ result[r] # NULL
        /\ resp[r].status = 200
        /\ ModelText(r) = <<"a", " ">>
        /\ resp[r].text = <<"a">>

\* C6: a request whose `data` is present but not well-formed base64 is
\* answered with ok:false and status 500, with error and trace.
C6_MalformedBase64 ==
    \A r \in Requests :
        (Done(r) /\ MalformedData(r)) =>
            (Fail(r, 500) /\ {"error", "trace"} \subseteq DOMAIN resp[r])

\* C7: no step changes the configured model identifier or the loaded model,
\* /health changes nothing but its own response, and every /health response
\* is ok:true with the identifier the model was loaded under.
C7_Step ==
    /\ MODEL_NAME' = MODEL_NAME
    /\ model' = model
    /\ healthResp' # NULL => healthResp' = [ok |-> TRUE, model |-> model.name]
    /\ healthResp' # healthResp =>
          UNCHANGED <<disk, pc, body, data_b64, language, suffix, tmp,
                      whisper_opts, heard, result, text, exc, resp, events>>

C7_Health == [][C7_Step]_vars

C7_Witness ==
    /\ healthResp # NULL
    /\ model.name = "small"
    /\ \E r, q \in Requests :
          /\ Done(r) /\ resp[r].status = 200
          /\ Done(q) /\ resp[q].status = 500

\* C8: two requests in flight never hold the same temporary path, and while
\* the model reads a request's file, the file is that request's own and holds
\* exactly the bytes decoded from that request's data.
InFlight(r) == pc[r] \in {"L46", "L47", "L48", "L51", "L56", "L60"}

C8_Isolation ==
    /\ \A r, q \in Requests :
          (r # q /\ InFlight(r) /\ InFlight(q)) => tmp[r].name # tmp[q].name
    /\ \A r \in Requests :
          pc[r] = "L56" =>
              /\ tmp[r].name \in DOMAIN disk
              /\ disk[tmp[r].name] =
                    [owner |-> r, content |-> B64Decode(data_b64[r]).bytes]
              /\ heard[r] = [bytes |-> B64Decode(data_b64[r]).bytes]
    /\ \A r \in Requests :
          (Done(r) /\ heard[r] # NULL) =>
              heard[r] = [bytes |-> B64Decode(data_b64[r]).bytes]

C8_Witness ==
    \E r, q \in Requests :
        /\ r # q
        /\ pc[r] = "L56"
        /\ Done(q) /\ resp[q].status = 500 /\ HasEvent(q, "unlink")
        /\ tmp[q].name[2] = tmp[r].name[2]
        /\ data_b64[q] # data_b64[r]

\* C9: the model is invoked only after the decoded bytes were written, the
\* handle flushed and closed, in that order; a request in which decoding,
\* writing, flushing or closing failed never invokes the model.
C9_ModelAfterClose ==
    \A r \in Requests :
        HasEvent(r, "transcribe") =>
            /\ Len(events[r]) >= 5
            /\ SubSeq(events[r], 1, 5) =
                  <<"create", "write", "flush", "close", "transcribe">>
            /\ tmp[r].closed
            /\ tmp[r].buf = <<>>
            /\ heard[r] # NULL => heard[r] = [bytes |-> B64Decode(data_b64[r]).bytes]

C9_Witness ==
    \E r \in Requests : pc[r] = "L56" /\ heard[r] = [bytes |-> <<66>>]

\* C10: a 400 response comes from validation alone: the request created no
\* temporary file and did not invoke the model, the empty-body answer is
\* given exactly when the body is empty, and the missing-data answer when
\* the body is non-empty and `data` is missing or empty.
C10_RejectedEarly ==
    \A r \in Requests :
        (Done(r) /\ resp[r].status = 400) =>
            /\ events[r] = <<>>
            /\ tmp[r] = NULL
            /\ ~OwnsFile(r)
            /\ heard[r] = NULL
            /\ IsJson(body[r])
            /\ IF ~Truthy(body[r].json)
               THEN resp[r].error = "Request JSON vacio"
               ELSE /\ resp[r].error = "Falta campo 'data' (base64)"
                    /\ BodyObject(r)
                    /\ ~Truthy(DictGet(body[r].json.obj, "data", JNull))

C10_Witness ==
    \E r \in Requests :
        /\ Done(r) /\ resp[r].status = 400
        /\ HasField(r, "filename") /\ HasField(r, "language")
        /\ ~HasField(r, "data")

====
